---- MODULE Spec2Model ----
(***************************************************************************)
(* A model of the GWAS file checker (streamlit_app.py) and of the data     *)
(* file re-formatter (data_reformatter_app.py).                            *)
(*                                                                         *)
(* Python strings are sequences of one-character strings, so that          *)
(* str.lower() and str.split() are computed character by character.        *)
(***************************************************************************)
EXTENDS Naturals, Sequences, FiniteSets

VARIABLES
    \* is_valid_file_extension, called on its own
    file_path, valid_extensions, ext_pc, ext_result,
    \* has_valid_column_names, called on its own
    columns, schema, cols_pc, cols_result,
    \* one script run of streamlit_app.main
    file, messages, column_name_map, lookups, link_built, plot_called,
    key_error,
    \* the widgets and the output of data_reformatter_app.main
    names_text, data_file, selection, displayed

extVars == <<file_path, valid_extensions, ext_pc, ext_result>>
colsVars == <<columns, schema, cols_pc, cols_result>>
mainVars == <<file, messages, column_name_map, lookups,
              link_built, plot_called, key_error>>
fmtVars == <<names_text, data_file, selection, displayed>>
vars == <<extVars, colsVars, mainVars, fmtVars>>

\* Python's None: a variable that holds a value v or None is {v} or {}.
None == {}

(***************************************************************************)
(* Bounds of the model.                                                    *)
(***************************************************************************)
\* longest generated file name, in characters
MaxNameLen == 3
\* most columns of an uploaded table
MaxCols == 5
\* most columns of a table checked against a generated schema
MaxToyCols == 3
\* most fields of a generated schema
MaxFields == 2
\* longest text typed into the "Column Names" input, in characters
MaxTextLen == 3
\* most columns of a table given to the re-formatter
MaxTableCols == 2

\* All sequences over S of length at most n.
SeqsUpTo(S, n) == UNION {[1..k -> S] : k \in 0..n}

\* The sequences of SeqsUpTo(S, n) with no element twice.
DistinctSeqsUpTo(S, n) ==
    {s \in SeqsUpTo(S, n) : \A i, j \in 1..Len(s) : s[i] = s[j] => i = j}

(***************************************************************************)
(* Python string operations.                                               *)
(***************************************************************************)
\* The lower-case letter of each upper-case letter, and the reverse.
ToLower ==
    [A |-> "a", B |-> "b", C |-> "c", D |-> "d", E |-> "e", F |-> "f", G |->
     "g", H |-> "h", I |-> "i", J |-> "j", K |-> "k", L |-> "l", M |-> "m",
     N |-> "n", O |-> "o", P |-> "p", Q |-> "q", R |-> "r", S |-> "s", T |->
     "t", U |-> "u", V |-> "v", W |-> "w", X |-> "x", Y |-> "y", Z |-> "z"]
ToUpper ==
    [a |-> "A", b |-> "B", c |-> "C", d |-> "D", e |-> "E", f |-> "F", g |->
     "G", h |-> "H", i |-> "I", j |-> "J", k |-> "K", l |-> "L", m |-> "M",
     n |-> "N", o |-> "O", p |-> "P", q |-> "Q", r |-> "R", s |-> "S", t |->
     "T", u |-> "U", v |-> "V", w |-> "W", x |-> "X", y |-> "Y", z |-> "Z"]

\* str.lower() on one character
CharLower(c) == IF c \in DOMAIN ToLower THEN ToLower[c] ELSE c

\* str.swapcase() on one character
CharSwapCase(c) ==
    IF c \in DOMAIN ToLower
    THEN ToLower[c]
    ELSE IF c \in DOMAIN ToUpper THEN ToUpper[c] ELSE c

\* str.lower()
lower(s) == [k \in 1..Len(s) |-> CharLower(s[k])]

\* str.split(sep) for a one-character separator: the list of the pieces
\* between the separators (one piece, the whole string, when there is none).
RECURSIVE split(_, _)
split(s, sep) ==
    IF \A k \in 1..Len(s) : s[k] # sep
    THEN <<s>>
    ELSE LET k == CHOOSE i \in 1..Len(s) :
                      s[i] = sep /\ \A j \in 1..(i - 1) : s[j] # sep
         IN  <<SubSeq(s, 1, k - 1)>> \o split(SubSeq(s, k + 1, Len(s)), sep)

(***************************************************************************)
(* streamlit_app.py: is_valid_file_extension                               *)
(***************************************************************************)
\* The same with the '.lower()' left out.
is_valid_file_extension_no_lower(path, extensions) ==
    LET parts == split(path, ".")
        file_extension == <<".">> \o parts[Len(parts)]
    IN  file_extension \in extensions

is_valid_file_extension(path, extensions) ==
    LET parts == split(path, ".")
        file_extension == <<".">> \o parts[Len(parts)]
    IN  lower(file_extension) \in extensions

\* main: permitted_extensions
permitted_extensions ==
    { <<".", "l", "i", "n", "e", "a", "r">>,
      <<".", "l", "o", "g", "i", "s", "t", "i", "c">>,
      <<".", "a", "s", "s", "o", "c">>,
      <<".", "q", "a", "s", "s", "o", "c">>,
      <<".", "g", "w", "a", "s">> }

\* The characters of the generated file names.
NameChars == {"g", "G", "w", "."}

\* File names the function is called with: every string over NameChars up to
\* MaxNameLen characters, and some names of real files.
FilePaths ==
    SeqsUpTo(NameChars, MaxNameLen) \cup
    { <<"g", "w", "a", "s">>,
      <<"s", ".", "g", "w", "a", "s">>,
      <<"s", ".", "Q", "A", "S", "S", "O", "C">>,
      <<"s", ".", "t", "a", "r", ".", "G", "w", "a", "s">>,
      <<"s", "a", "m", "p", "l", "e">>,
      <<"s", ".", "t", "x", "t">> }

\* Lists of allowed extensions the function is called with.
ExtensionLists ==
    {permitted_extensions,
     { <<".", "G", "W", "A", "S">> },
     { <<".", "g", "w", "a", "s">>, <<".", "Q", "a", "s", "s", "o", "c">> }}
    \cup SUBSET { <<".", "g">>, <<".", "G">>, <<".", "g", "w">>, <<".">> }

\* One call of is_valid_file_extension(file_path, valid_extensions).
CallIsValidFileExtension ==
    /\ ext_pc = "call"
    /\ ext_pc' = "done"
    /\ ext_result' = is_valid_file_extension(file_path, valid_extensions)
    /\ UNCHANGED <<file_path, valid_extensions, colsVars, mainVars, fmtVars>>

(***************************************************************************)
(* Properties of is_valid_file_extension (SpecExt).                        *)
(***************************************************************************)
HasDot(s) == \E k \in 1..Len(s) : s[k] = "."

\* The part of s after its last '.', all of s when it has none.
AfterLastDot(s) ==
    LET dots == {k \in 1..Len(s) : s[k] = "."}
        last == IF dots = {} THEN 0
                ELSE CHOOSE k \in dots : \A d \in dots : d <= k
    IN  SubSeq(s, last + 1, Len(s))

\* C4: a file name with no '.' in it is never a valid one.
C4_NoDotIsInvalid ==
    (ext_pc = "done" /\ ~HasDot(file_path)) => ext_result = FALSE

\* C5 as stated: the function returns true exactly when the part of the
\* file name after its last '.', prefixed with '.', equals an allowed
\* extension with the letter case ignored on both sides.
C5_CaseIgnoredOnBothSides ==
    (ext_pc = "done" /\ HasDot(file_path)) =>
        ext_result = (\E e \in valid_extensions :
                         lower(e) = lower(<<".">> \o AfterLastDot(file_path)))

\* C5 amended: the function returns true exactly when the part of the file
\* name after its last '.' (the whole name when it has none), lower-cased
\* and prefixed with '.', is one of the allowed extensions as they are
\* written; and no change of letter case in the file name changes the result.
C5_CaseIgnoredInFileName ==
    ext_pc = "done" =>
        /\ ext_result =
               (<<".">> \o lower(AfterLastDot(file_path)) \in valid_extensions)
        /\ \A other \in FilePaths :
               lower(other) = lower(file_path) =>
                   is_valid_file_extension(other, valid_extensions) = ext_result

\* A name with an upper-case extension is found valid.
C5_Witness ==
    /\ ext_pc = "done"
    /\ ext_result = TRUE
    /\ HasDot(file_path)
    /\ AfterLastDot(file_path) # lower(AfterLastDot(file_path))

(***************************************************************************)
(* streamlit_app.py: has_valid_column_names                                *)
(***************************************************************************)
\* main: required_columns, the possible names of each required column
required_columns ==
    << { <<"c", "h", "r">>,
         <<"c", "h", "r", "o", "m", "o", "s", "o", "m", "e">> },
       { <<"b", "p">>,
         <<"p", "o", "s">>,
         <<"p", "o", "s", "i", "t", "i", "o", "n">> },
       { <<"s", "n", "p">>,
         <<"r", "s">>,
         <<"r", "s", "i", "d">>,
         <<"r", "s", "n", "u", "m">>,
         <<"i", "d">>,
         <<"m", "a", "r", "k", "e", "r">>,
         <<"m", "a", "r", "k", "e", "r", "n", "a", "m", "e">> },
       { <<"p">>,
         <<"p", "v", "a", "l">>,
         <<"p", "-", "v", "a", "l", "u", "e">>,
         <<"p", "v", "a", "l", "u", "e">>,
         <<"p", ".", "v", "a", "l", "u", "e">> } >>

\* The same with 'len(columns) <= len(required)' as the guard.
has_valid_column_names_le(df_columns, required) ==
    LET cols == [k \in 1..Len(df_columns) |-> lower(df_columns[k])]
    IN  IF Len(cols) <= Len(required)
        THEN FALSE
        ELSE LET success_bool_list ==
                     [i \in 1..Len(required) |->
                         \E j \in 1..Len(cols) : cols[j] \in required[i]]
             IN  \A i \in 1..Len(required) : success_bool_list[i]

\* The same with any() for all().
has_valid_column_names_any(df_columns, required) ==
    LET cols == [k \in 1..Len(df_columns) |-> lower(df_columns[k])]
    IN  IF Len(cols) < Len(required)
        THEN FALSE
        ELSE LET success_bool_list ==
                     [i \in 1..Len(required) |->
                         \E j \in 1..Len(cols) : cols[j] \in required[i]]
             IN  \E i \in 1..Len(required) : success_bool_list[i]

\* The same comparing the column names as they are spelled in the table.
has_valid_column_names_no_lower(df_columns, required) ==
    LET cols == df_columns
    IN  IF Len(cols) < Len(required)
        THEN FALSE
        ELSE LET success_bool_list ==
                     [i \in 1..Len(required) |->
                         \E j \in 1..Len(cols) : cols[j] \in required[i]]
             IN  \A i \in 1..Len(required) : success_bool_list[i]

\* df_columns is df.columns.to_list(). The inner loop leaves at its first
\* match, which sets success_bool_list[i] exactly when some column matches.
has_valid_column_names(df_columns, required) ==
    LET cols == [k \in 1..Len(df_columns) |-> lower(df_columns[k])]
    IN  IF Len(cols) < Len(required)
        THEN FALSE
        ELSE LET success_bool_list ==
                     [i \in 1..Len(required) |->
                         \E j \in 1..Len(cols) : cols[j] \in required[i]]
             IN  \A i \in 1..Len(required) : success_bool_list[i]

\* Column names of the tables checked against required_columns.
CheckedColumnNames ==
    { <<"c", "h", "r", "o", "m", "o", "s", "o", "m", "e">>,
      <<"C", "H", "R">>,
      <<"b", "p">>,
      <<"r", "s", "I", "D">>,
      <<"p">>,
      <<"b", "e", "t", "a">> }

\* Alias names and column names of the generated schemas and their tables.
ToyAliases == { <<"i", "d">>, <<"s", "n", "p">> }
ToyColumnNames == ToyAliases \cup { <<"I", "D">>, <<"x">> }

\* One call of has_valid_column_names(df, schema), df.columns being columns.
CallHasValidColumnNames ==
    /\ cols_pc = "call"
    /\ cols_pc' = "done"
    /\ cols_result' = has_valid_column_names(columns, schema)
    /\ UNCHANGED <<columns, schema, extVars, mainVars, fmtVars>>


(***************************************************************************)
(* Properties of has_valid_column_names (SpecCols).                        *)
(***************************************************************************)
\* Every field of the schema has an alias that some column name, in lower
\* case, is equal to.
EveryFieldMatched(df_columns, required) ==
    \A i \in 1..Len(required) :
        \E j \in 1..Len(df_columns) :
            \E alias \in required[i] : alias = lower(df_columns[j])

\* s with the case of its k-th character changed
SwapCaseAt(s, k) == [s EXCEPT ![k] = CharSwapCase(s[k])]

\* s with the case of one letter changed, of all letters changed, in lower
\* case
CaseVariants(s) ==
    {SwapCaseAt(s, k) : k \in 1..Len(s)}
        \cup {[k \in 1..Len(s) |-> CharSwapCase(s[k])], lower(s)}

\* No alias belongs to two fields of the schema.
PairwiseDisjoint(required) ==
    \A i, j \in 1..Len(required) :
        i # j => required[i] \cap required[j] = {}

\* C2: against the fixed schema the function returns true exactly when each
\* of the four fields has an alias equal to some lower-cased column name.
C2_ValidIffEveryFieldMatched ==
    (cols_pc = "done" /\ schema = required_columns) =>
        cols_result = EveryFieldMatched(columns, required_columns)

\* A table with two columns for the chromosome is found valid.
C2_Witness ==
    /\ cols_pc = "done"
    /\ schema = required_columns
    /\ cols_result = TRUE
    /\ \E i, j \in 1..Len(columns) :
           /\ i # j
           /\ lower(columns[i]) \in required_columns[1]
           /\ lower(columns[j]) \in required_columns[1]

\* C6: against the fixed schema, changing the letter case of a column name
\* does not change what the function returns.
C6_CaseOfColumnNames ==
    (cols_pc = "done" /\ schema = required_columns) =>
        \A i \in 1..Len(columns) :
            \A variant \in CaseVariants(columns[i]) :
                has_valid_column_names([columns EXCEPT ![i] = variant], schema)
                    = cols_result

\* A table with an upper-case letter in a column name is found valid.
C6_Witness ==
    /\ cols_pc = "done"
    /\ schema = required_columns
    /\ cols_result = TRUE
    /\ \E i \in 1..Len(columns) : columns[i] # lower(columns[i])

\* C8 as stated: for every schema the function returns what the per-field
\* check alone returns.
C8_GuardRedundant ==
    cols_pc = "done" => cols_result = EveryFieldMatched(columns, schema)

\* C8 amended: for every schema no alias of which belongs to two fields,
\* the function returns what the per-field check alone returns.
C8_GuardRedundantIfDisjoint ==
    (cols_pc = "done" /\ PairwiseDisjoint(schema)) =>
        cols_result = EveryFieldMatched(columns, schema)

\* The guard returns false for a table with too few columns, one of which
\* matches a field.
C8_Witness ==
    /\ cols_pc = "done"
    /\ PairwiseDisjoint(schema)
    /\ Len(columns) < Len(schema)
    /\ \E i \in 1..Len(schema) :
           \E j \in 1..Len(columns) : lower(columns[j]) \in schema[i]
    /\ cols_result = FALSE

(***************************************************************************)
(* streamlit_app.py: main                                                  *)
(***************************************************************************)
\* the default names of lines 163 and 169-170, 77-102
default_names == <<"chr", "bp", "snp", "p">>

\* dict[key] = value
Put(map, key, value) ==
    [k \in (DOMAIN map) \cup {key} |-> IF k = key THEN value ELSE map[k]]

\* The same recording the lower-cased name.
RECURSIVE scan_columns_lowered(_, _, _, _, _)
scan_columns_lowered(map, default_name, aliases, df_columns, j) ==
    IF j > Len(df_columns)
    THEN map
    ELSE scan_columns_lowered(
             IF lower(df_columns[j]) \in aliases
             THEN Put(map, default_name, lower(df_columns[j]))
             ELSE map,
             default_name, aliases, df_columns, j + 1)

\* The same comparing the column name as it is spelled in the table.
RECURSIVE scan_columns_no_lower(_, _, _, _, _)
scan_columns_no_lower(map, default_name, aliases, df_columns, j) ==
    IF j > Len(df_columns)
    THEN map
    ELSE scan_columns_no_lower(
             IF df_columns[j] \in aliases
             THEN Put(map, default_name, df_columns[j])
             ELSE map,
             default_name, aliases, df_columns, j + 1)

\* The inner loop of lines 164-166, from the j-th column on: every matching
\* column is assigned in turn, and the loop has no break.
RECURSIVE scan_columns(_, _, _, _, _)
scan_columns(map, default_name, aliases, df_columns, j) ==
    IF j > Len(df_columns)
    THEN map
    ELSE scan_columns(
             IF lower(df_columns[j]) \in aliases
             THEN Put(map, default_name, df_columns[j])
             ELSE map,
             default_name, aliases, df_columns, j + 1)

\* The outer loop of lines 163-166, from the i-th default name on.
RECURSIVE map_default_names(_, _, _, _)
map_default_names(map, df_columns, required, i) ==
    IF i > Len(default_names)
    THEN map
    ELSE map_default_names(
             scan_columns(map, default_names[i], required[i], df_columns, 1),
             df_columns, required, i + 1)

\* Lines 161-166: column_name_map, a dict that starts empty.
build_column_name_map(df_columns, required) ==
    map_default_names(<<>>, df_columns, required, 1)

\* The keys column_name_map is indexed with, in the order of evaluation:
\* by the lambda of lines 169-170 on a row, and by
\* plotly_plot_genome_position_v_pval on lines 77, 82, 86, 87, 97, 98, 101, 102.
LinkKeys == <<"chr", "bp">>
PlotKeys == <<"p", "bp", "snp", "p", "bp", "p", "snp", "p">>

\* column_name_map[key] for each key of keys in turn: the keys looked up,
\* the last of which raises KeyError when it is no key of the dict.
index_map(map, keys) ==
    IF \E k \in 1..Len(keys) : keys[k] \notin DOMAIN map
    THEN LET k == CHOOSE i \in 1..Len(keys) :
                      /\ keys[i] \notin DOMAIN map
                      /\ \A j \in 1..(i - 1) : keys[j] \in DOMAIN map
         IN  [done |-> SubSeq(keys, 1, k), missing |-> {keys[k]}]
    ELSE [done |-> keys, missing |-> None]

\* the st.error and st.success messages of lines 150, 157 and 159
ExtensionError == "Invalid file extension."
ColumnError == "Invalid column names."
Success == "File is valid. All checks passed."

\* Lines 168-172 with column_name_map built: the lambda of lines 169-170
\* indexes it for a row (link), and when that raised nothing the dbSNP
\* column is added and the plotting routine is called and indexes it (plot).
add_link_and_plot(message, map, link, plot) ==
    IF link.missing # None
    THEN [messages |-> <<message>>, column_name_map |-> map,
          lookups |-> link.done, link_built |-> FALSE,
          plot_called |-> FALSE, key_error |-> link.missing]
    ELSE [messages |-> <<message>>, column_name_map |-> map,
          lookups |-> link.done \o plot.done, link_built |-> TRUE,
          plot_called |-> TRUE, key_error |-> plot.missing]

\* Lines 161-172, which follow the if/else of lines 156-159 at its own
\* indentation: they run whatever has_valid_column_names returned.
map_and_plot(message, map) ==
    add_link_and_plot(message, map,
                      index_map(map, LinkKeys), index_map(map, PlotKeys))

\* One run of main with the uploaded file f, whose table has at least one
\* row: what it shows and computes until it ends or raises KeyError.
streamlit_main(f) ==
    IF ~is_valid_file_extension(f.name, permitted_extensions)
    THEN [messages |-> <<ExtensionError>>, column_name_map |-> <<>>,
          lookups |-> <<>>, link_built |-> FALSE, plot_called |-> FALSE,
          key_error |-> None]
    ELSE map_and_plot(
             IF ~has_valid_column_names(f.columns, required_columns)
             THEN ColumnError
             ELSE Success,
             build_column_name_map(f.columns, required_columns))

\* Names of uploaded files.
UploadNames ==
    { <<"s", ".", "g", "w", "a", "s">>,
      <<"s", ".", "Q", "A", "S", "S", "O", "C">>,
      <<"g", "w", "a", "s">>,
      <<"s", ".", "t", "x", "t">> }

\* Column names of uploaded tables.
ColumnNames ==
    { <<"c", "h", "r", "o", "m", "o", "s", "o", "m", "e">>,
      <<"c", "h", "r">>,
      <<"C", "H", "R">>,
      <<"b", "p">>,
      <<"r", "s", "I", "D">>,
      <<"P">>,
      <<"b", "e", "t", "a">> }

\* Uploaded files: pd.read_csv gives a table at least one column, and no
\* two columns the same name.
Files ==
    [name : UploadNames,
     columns : DistinctSeqsUpTo(ColumnNames, MaxCols) \ {<<>>}]

\* The user uploads a file and the script runs. What a run shows depends on
\* the uploaded file alone, so uploads into the empty uploader reach every
\* state that replacing a file reaches.
UploadFile ==
    /\ file = None
    /\ \E f \in Files :
        LET run == streamlit_main(f)
        IN  /\ file' = {f}
            /\ messages' = run.messages
            /\ column_name_map' = run.column_name_map
            /\ lookups' = run.lookups
            /\ link_built' = run.link_built
            /\ plot_called' = run.plot_called
            /\ key_error' = run.key_error
    /\ UNCHANGED <<extVars, colsVars, fmtVars>>

\* The user removes the file and the script runs: line 146 skips the rest.
RemoveFile ==
    /\ file # None
    /\ file' = None
    /\ messages' = <<>>
    /\ column_name_map' = <<>>
    /\ lookups' = <<>>
    /\ link_built' = FALSE
    /\ plot_called' = FALSE
    /\ key_error' = None
    /\ UNCHANGED <<extVars, colsVars, fmtVars>>

(***************************************************************************)
(* Properties of streamlit_app.main (Spec).                                *)
(***************************************************************************)
\* The run passed the extension check, so it built column_name_map.
MapBuilt == messages \in {<<ColumnError>>, <<Success>>}

\* Some column of df_columns matches an alias of the i-th field.
FieldMatched(df_columns, i) ==
    \E j \in 1..Len(df_columns) : lower(df_columns[j]) \in required_columns[i]

\* The first column of df_columns that matches an alias of the i-th field.
FirstMatch(df_columns, i) ==
    df_columns[CHOOSE j \in 1..Len(df_columns) :
                   /\ lower(df_columns[j]) \in required_columns[i]
                   /\ \A k \in 1..(j - 1) :
                          lower(df_columns[k]) \notin required_columns[i]]

\* C1: the map records, for each field that a column matches, the first
\* such column of the table.
C1_FirstMatchRecorded ==
    MapBuilt =>
        \A f \in file :
            \A i \in 1..Len(default_names) :
                FieldMatched(f.columns, i) =>
                    /\ default_names[i] \in DOMAIN column_name_map
                    /\ column_name_map[default_names[i]]
                           = FirstMatch(f.columns, i)

\* C3: a run in which has_valid_column_names returned false indexes the map
\* with no key, builds no dbSNP column, does not call the plotting routine
\* and raises no KeyError.
C3_NothingAfterInvalidColumns ==
    messages = <<ColumnError>> =>
        /\ lookups = <<>>
        /\ ~link_built
        /\ ~plot_called
        /\ key_error = None

\* C9: a default name is a key of the map exactly when some column matches
\* an alias of its field, whatever has_valid_column_names returned.
C9_KeyIffFieldMatched ==
    MapBuilt =>
        \A f \in file :
            /\ DOMAIN column_name_map \subseteq
                   {default_names[i] : i \in 1..Len(default_names)}
            /\ \A i \in 1..Len(default_names) :
                   default_names[i] \in DOMAIN column_name_map
                       <=> FieldMatched(f.columns, i)

\* Validation failed and the map holds some of the four keys, one of them
\* for a column spelled in upper case.
C9_Witness ==
    /\ messages = <<ColumnError>>
    /\ DOMAIN column_name_map # {}
    /\ DOMAIN column_name_map # {"chr", "bp", "snp", "p"}
    /\ \E k \in DOMAIN column_name_map :
           column_name_map[k] # lower(column_name_map[k])

\* C10: when has_valid_column_names returned true, the map has exactly the
\* keys chr, bp, snp and p, each value is a column of the table as it is
\* spelled there whose lower-cased name is an alias of the field, and every
\* lookup of the run succeeds.
C10_ValidTableFullyMapped ==
    messages = <<Success>> =>
        \A f \in file :
            /\ DOMAIN column_name_map = {"chr", "bp", "snp", "p"}
            /\ \A i \in 1..Len(default_names) :
                   /\ \E j \in 1..Len(f.columns) :
                          column_name_map[default_names[i]] = f.columns[j]
                   /\ lower(column_name_map[default_names[i]])
                          \in required_columns[i]
            /\ lookups = LinkKeys \o PlotKeys
            /\ link_built
            /\ plot_called
            /\ key_error = None

\* A valid table with a column spelled in upper case was mapped and plotted.
C10_Witness ==
    /\ messages = <<Success>>
    /\ plot_called
    /\ \E k \in DOMAIN column_name_map :
           column_name_map[k] # lower(column_name_map[k])

(***************************************************************************)
(* data_reformatter_app.py                                                 *)
(***************************************************************************)
\* A table is the sequence of its columns, each a name and its data.

\* df.columns = column_names raises ValueError on a length mismatch.
edit_df_columns_raises(df, column_names, column_order) ==
    Len(column_names) # Len(df)

\* df[column_order]: for each label in turn, the columns of that name.
RECURSIVE take_columns(_, _)
take_columns(df, labels) ==
    IF labels = <<>>
    THEN <<>>
    ELSE SelectSeq(df, LAMBDA c : c.name = Head(labels))
             \o take_columns(df, Tail(labels))

\* edit_df_columns where it does not raise
edit_df_columns(df, column_names, column_order) ==
    LET renamed == [i \in 1..Len(df) |->
                       [name |-> column_names[i], data |-> df[i].data]]
    IN  take_columns(renamed, column_order)

\* What one run of main displays (st.dataframe), if anything, given the text
\* of the "Column Names" input, the uploaded file and the value of the
\* "Column Order" multiselect.
reformatter_main(text, uploaded, multiselect) ==
    LET column_names == split(text, ",")
        column_order == <<>>
    IN  IF uploaded # None
        THEN LET in_df == CHOOSE t \in uploaded : TRUE
                 df == IF column_order # <<>>
                       THEN edit_df_columns(in_df, column_names, column_order)
                       ELSE in_df
             IN  {df}
        ELSE None

\* Texts typed into the "Column Names" input.
NameTexts == SeqsUpTo({"a", "b", ","}, MaxTextLen)

\* Uploaded tables: their columns are named differently, and the data of a
\* column is its place in the file.
Tables ==
    { [i \in 1..Len(names) |-> [name |-> names[i], data |-> i]] :
        names \in DistinctSeqsUpTo({ <<"x">>, <<"y">>, <<"a">> }, MaxTableCols)
                      \ {<<>>} }

\* The user types the column names and the script runs. The multiselect of
\* line 44 has new options, so it is a new widget with nothing selected.
TypeColumnNames ==
    /\ \E text \in NameTexts :
        /\ text # names_text
        /\ names_text' = text
        /\ selection' = <<>>
        /\ displayed' = reformatter_main(text, data_file, <<>>)
    /\ UNCHANGED <<data_file, extVars, colsVars, mainVars>>

\* The user uploads a data file and the script runs.
UploadDataFile ==
    /\ \E t \in Tables :
        /\ data_file # {t}
        /\ data_file' = {t}
        /\ displayed' = reformatter_main(names_text, {t}, selection)
    /\ UNCHANGED <<names_text, selection, extVars, colsVars, mainVars>>

\* The user removes the data file and the script runs; the multiselect is
\* not drawn and loses its value.
RemoveDataFile ==
    /\ data_file # None
    /\ data_file' = None
    /\ selection' = <<>>
    /\ displayed' = reformatter_main(names_text, None, <<>>)
    /\ UNCHANGED <<names_text, extVars, colsVars, mainVars>>

\* The user changes the "Column Order" multiselect, which line 44 draws when
\* a file is uploaded, and the script runs.
SelectColumnOrder ==
    /\ data_file # None
    /\ \E order \in DistinctSeqsUpTo({n : n \in
                        {split(names_text, ",")[i] :
                            i \in 1..Len(split(names_text, ","))}},
                        Len(split(names_text, ","))) :
        /\ order # selection
        /\ selection' = order
        /\ displayed' = reformatter_main(names_text, data_file, order)
    /\ UNCHANGED <<names_text, data_file, extVars, colsVars, mainVars>>

(***************************************************************************)
(* Properties of data_reformatter_app.main (SpecFmt).                      *)
(***************************************************************************)
\* C7: with a file uploaded, column names entered, as many as the file has
\* columns, and a column order selected, the displayed table is the
\* uploaded one with its columns renamed and put in the selected order.
C7_DisplayedTableIsReformatted ==
    \A in_df \in data_file :
        ( /\ \A i \in 1..Len(split(names_text, ",")) :
                 split(names_text, ",")[i] # <<>>
          /\ selection # <<>>
          /\ ~edit_df_columns_raises(in_df, split(names_text, ","), selection) )
        => displayed =
               {edit_df_columns(in_df, split(names_text, ","), selection)}

(***************************************************************************)
(* Specifications.                                                         *)
(***************************************************************************)
\* streamlit_app.main: no file is uploaded yet.
Init ==
    /\ file = None
    /\ messages = <<>>
    /\ column_name_map = <<>>
    /\ lookups = <<>>
    /\ link_built = FALSE
    /\ plot_called = FALSE
    /\ key_error = None
    /\ file_path = <<>> /\ valid_extensions = {}
    /\ ext_pc = "call" /\ ext_result = FALSE
    /\ columns = <<>> /\ schema = <<>>
    /\ cols_pc = "call" /\ cols_result = FALSE
    /\ names_text = <<>> /\ data_file = None
    /\ selection = <<>> /\ displayed = None

Next ==
    \/ UploadFile
    \/ RemoveFile

Spec == Init /\ [][Next]_vars

\* is_valid_file_extension is called with a file name and a list of allowed
\* extensions; ext_result holds what it returned once ext_pc is "done".
ExtInit ==
    /\ file_path \in FilePaths
    /\ valid_extensions \in ExtensionLists
    /\ ext_pc = "call"
    /\ ext_result = FALSE
    /\ file = None /\ messages = <<>> /\ column_name_map = <<>>
    /\ lookups = <<>> /\ link_built = FALSE /\ plot_called = FALSE
    /\ key_error = None
    /\ columns = <<>> /\ schema = <<>>
    /\ cols_pc = "call" /\ cols_result = FALSE
    /\ names_text = <<>> /\ data_file = None
    /\ selection = <<>> /\ displayed = None

ExtNext == CallIsValidFileExtension

SpecExt == ExtInit /\ [][ExtNext]_vars

\* has_valid_column_names is called with a table's columns and the fixed
\* schema, or with a generated schema of alias sets and a table for it;
\* cols_result holds what it returned once cols_pc is "done".
ColsInit ==
    /\ \/ /\ schema = required_columns
          /\ columns \in SeqsUpTo(CheckedColumnNames, MaxCols)
       \/ /\ schema \in SeqsUpTo(SUBSET ToyAliases, MaxFields)
          /\ columns \in SeqsUpTo(ToyColumnNames, MaxToyCols)
    /\ cols_pc = "call"
    /\ cols_result = FALSE
    /\ file = None /\ messages = <<>> /\ column_name_map = <<>>
    /\ lookups = <<>> /\ link_built = FALSE /\ plot_called = FALSE
    /\ key_error = None
    /\ file_path = <<>> /\ valid_extensions = {}
    /\ ext_pc = "call" /\ ext_result = FALSE
    /\ names_text = <<>> /\ data_file = None
    /\ selection = <<>> /\ displayed = None

ColsNext == CallHasValidColumnNames

SpecCols == ColsInit /\ [][ColsNext]_vars

\* data_reformatter_app.main: the text input is empty, no file is uploaded.
FmtInit ==
    /\ names_text = <<>>
    /\ data_file = None
    /\ selection = <<>>
    /\ displayed = None
    /\ file = None /\ messages = <<>> /\ column_name_map = <<>>
    /\ lookups = <<>> /\ link_built = FALSE /\ plot_called = FALSE
    /\ key_error = None
    /\ file_path = <<>> /\ valid_extensions = {}
    /\ ext_pc = "call" /\ ext_result = FALSE
    /\ columns = <<>> /\ schema = <<>>
    /\ cols_pc = "call" /\ cols_result = FALSE

FmtNext ==
    \/ TypeColumnNames
    \/ UploadDataFile
    \/ RemoveDataFile
    \/ SelectColumnOrder

SpecFmt == FmtInit /\ [][FmtNext]_vars

====
